---------------------------- MODULE Spec2Model ----------------------------
(***************************************************************************)
(* The Mobile Data Dashboard (src/app.py): load_and_clean fetches a        *)
(* published spreadsheet as CSV (with retries), normalises its cells into  *)
(* counts, statuses and percentages, and the script renders summary cards, *)
(* a bar chart, a detail table and a CSV export under a state filter.      *)
(*                                                                         *)
(* Text is modelled as a tuple of characters, each character a one-token   *)
(* string, so that strip / lower / replace / "in" / isdigit / int / float  *)
(* are computed as Python computes them.  The token "sup2" stands for the  *)
(* single character U+00B2 (superscript two).                              *)
(***************************************************************************)
EXTENDS Integers, Sequences, FiniteSets, TLC

(***************************************************************************)
(* Bounds of the model.                                                    *)
(***************************************************************************)
\* longest generated cell text (all texts over a small alphabet up to this)
MaxLen == 2
\* most rows of a multi-row table
MaxRows == 2

(***************************************************************************)
(* Characters and Python's str methods.                                    *)
(***************************************************************************)
Upper == <<"A","B","C","D","E","F","G","H","I","J","K","L","M",
           "N","O","P","Q","R","S","T","U","V","W","X","Y","Z">>
Lower == <<"a","b","c","d","e","f","g","h","i","j","k","l","m",
           "n","o","p","q","r","s","t","u","v","w","x","y","z">>
Digits == <<"0","1","2","3","4","5","6","7","8","9">>

\* str.isspace: the whitespace str.strip() removes
isspace(c) == c \in {" ", "\t"}

\* str.isdecimal: the characters int() accepts as digits
isdecimal(c) == \E i \in 1..10 : Digits[i] = c

\* str.isdigit: the decimal digits and also the superscript digits
isdigit(c) == isdecimal(c) \/ c = "sup2"

DigitVal(c) == (CHOOSE i \in 1..10 : Digits[i] = c) - 1

lower_char(c) ==
    IF \E i \in 1..26 : Upper[i] = c
    THEN Lower[CHOOSE i \in 1..26 : Upper[i] = c]
    ELSE c

\* str.lower()
lower(s) == [i \in 1..Len(s) |-> lower_char(s[i])]

RECURSIVE lstrip(_)
lstrip(s) == IF s # <<>> /\ isspace(Head(s)) THEN lstrip(Tail(s)) ELSE s

RECURSIVE rstrip(_)
rstrip(s) ==
    IF s # <<>> /\ isspace(s[Len(s)]) THEN rstrip(SubSeq(s, 1, Len(s) - 1)) ELSE s

\* str.strip()
strip(s) == rstrip(lstrip(s))

\* s.replace(c, ""): every occurrence of the character c removed
RECURSIVE remove(_, _)
remove(s, c) ==
    IF s = <<>> THEN <<>>
    ELSE IF Head(s) = c THEN remove(Tail(s), c)
    ELSE <<Head(s)>> \o remove(Tail(s), c)

\* Python's  w in s  on strings: w occurs in s as a contiguous substring
Contains(s, w) ==
    \E i \in 0..(Len(s) - Len(w)) : SubSeq(s, i + 1, i + Len(w)) = w

\* "".join([c for c in s if c.isdigit()])
RECURSIVE digits_of(_)
digits_of(s) ==
    IF s = <<>> THEN <<>>
    ELSE IF isdigit(Head(s)) THEN <<Head(s)>> \o digits_of(Tail(s))
    ELSE digits_of(Tail(s))

\* the value of a string of decimal digits (0 for the empty string)
RECURSIVE StrToNat(_)
StrToNat(s) ==
    IF s = <<>> THEN 0
    ELSE 10 * StrToNat(SubSeq(s, 1, Len(s) - 1)) + DigitVal(s[Len(s)])

\* the decimal digits of a natural number, as str(n) writes them
RECURSIVE NatToStr(_)
NatToStr(n) ==
    IF n < 10 THEN <<Digits[n + 1]>>
    ELSE NatToStr(n \div 10) \o <<Digits[(n % 10) + 1]>>

RECURSIVE Pow10(_)
Pow10(k) == IF k = 0 THEN 1 ELSE 10 * Pow10(k - 1)

RECURSIVE Log10(_)
Log10(d) == IF d <= 1 THEN 0 ELSE 1 + Log10(d \div 10)

RECURSIVE Zeros(_)
Zeros(k) == IF k <= 0 THEN <<>> ELSE <<"0">> \o Zeros(k - 1)

(***************************************************************************)
(* Values of DataFrame cells.  A float is sign * num / den with den a      *)
(* power of ten (every float of the model comes from a short decimal       *)
(* literal); a cell is NaN, a str, an int or a float.                      *)
(***************************************************************************)
RECURSIVE FloatNorm(_)
FloatNorm(f) ==
    IF f.den > 1 /\ f.num % 10 = 0
    THEN FloatNorm([sign |-> f.sign, num |-> f.num \div 10, den |-> f.den \div 10])
    ELSE f

Float(sign, num, den) == FloatNorm([sign |-> sign, num |-> num, den |-> den])

Zero == [sign |-> 1, num |-> 0, den |-> 1]

NaN == [kind |-> "nan", s |-> <<>>, f |-> Zero]
StrCell(s) == [kind |-> "str", s |-> s, f |-> Zero]
IntCell(sign, n) ==
    [kind |-> "int", s |-> <<>>, f |-> [sign |-> IF n = 0 THEN 1 ELSE sign, num |-> n, den |-> 1]]
FloatCell(f) == [kind |-> "float", s |-> <<>>, f |-> f]

\* pd.isna(x)
isna(x) == x.kind = "nan"

W_nan == <<"n","a","n">>

\* str(x): a str is itself, an int its decimal digits, a float its repr
\* ("12.0", "1.5", "-0.0"), NaN "nan"
str(x) ==
    CASE x.kind = "str" -> x.s
      [] x.kind = "int" ->
            (IF x.f.sign = -1 THEN <<"-">> ELSE <<>>) \o NatToStr(x.f.num)
      [] x.kind = "float" ->
            (IF x.f.sign = -1 THEN <<"-">> ELSE <<>>)
            \o NatToStr(x.f.num \div x.f.den) \o <<".">>
            \o (IF x.f.den = 1 THEN <<"0">>
                ELSE LET frac == NatToStr(x.f.num % x.f.den)
                     IN  Zeros(Log10(x.f.den) - Len(frac)) \o frac)
      [] OTHER -> W_nan

\* the position of the first "." of s, or 0
DotAt(s) ==
    IF \E i \in 1..Len(s) : s[i] = "."
    THEN CHOOSE i \in 1..Len(s) : s[i] = "." /\ \A j \in 1..(i - 1) : s[j] # "."
    ELSE 0

\* an unsigned decimal literal: digits with at most one ".", at least one digit
IsDecimalBody(b) ==
    /\ \A i \in 1..Len(b) : isdecimal(b[i]) \/ b[i] = "."
    /\ Cardinality({i \in 1..Len(b) : b[i] = "."}) <= 1
    /\ \E i \in 1..Len(b) : isdecimal(b[i])

DecimalBodyValue(sign, b) ==
    LET d == DotAt(b)
        ip == IF d = 0 THEN b ELSE SubSeq(b, 1, d - 1)
        fr == IF d = 0 THEN <<>> ELSE SubSeq(b, d + 1, Len(b))
    IN  Float(sign, StrToNat(ip \o fr), Pow10(Len(fr)))

\* Python's float(s) on the texts of the model: surrounding whitespace is
\* ignored, an optional sign, then a decimal literal; anything else raises
\* ValueError.  (Exponents, underscores, "inf" and "nan" spellings do not
\* occur in the Population texts of the model.)
float(s) ==
    LET t == strip(s)
        signed == t # <<>> /\ Head(t) \in {"+", "-"}
        body == IF signed THEN Tail(t) ELSE t
        sign == IF signed /\ Head(t) = "-" THEN -1 ELSE 1
    IN  IF IsDecimalBody(body)
        THEN [exc |-> "None", val |-> DecimalBodyValue(sign, body)]
        ELSE [exc |-> "ValueError", val |-> Zero]

\* Python's int(s) on a non-empty string of isdigit() characters: the value
\* when every character is a decimal digit, ValueError otherwise
int(s) ==
    IF \A i \in 1..Len(s) : isdecimal(s[i])
    THEN [exc |-> "None", val |-> StrToNat(s)]
    ELSE [exc |-> "ValueError", val |-> 0]

(***************************************************************************)
(* The helpers of load_and_clean.                                          *)
(***************************************************************************)
W_data == <<"d","a","t","a">>
W_not == <<"n","o","t">>
W_available == <<"a","v","a","i","l","a","b","l","e">>
W_na == <<"n","a">>
W_n_a == <<"n","/","a">>
W_data_not_available ==
    <<"d","a","t","a"," ","n","o","t"," ","a","v","a","i","l","a","b","l","e">>
W_not_available == <<"n","o","t"," ","a","v","a","i","l","a","b","l","e">>
W_pending == <<"p","e","n","d","i","n","g">>
W_uploaded == <<"u","p","l","o","a","d","e","d">>
W_upload == <<"u","p","l","o","a","d">>
W_uploded == <<"u","p","l","o","d","e","d">>

\* the word list of to_int
to_int_words == {W_data, W_not, W_available, W_na, W_n_a}

\* the word list of clean
clean_words == {W_data_not_available, W_not_available, W_na, W_n_a}

\* to_int(x): the result, or the exception it raises
to_int(x) ==
    IF isna(x) \/ strip(str(x)) = <<>>
    THEN [exc |-> "None", val |-> 0]
    ELSE LET s == remove(remove(strip(str(x)), ","), " ")
         IN  IF \E word \in to_int_words : Contains(lower(s), word)
             THEN [exc |-> "None", val |-> 0]
             ELSE LET digits == digits_of(s)
                  IN  IF digits # <<>> THEN int(digits)
                      ELSE [exc |-> "None", val |-> 0]

\* to_float(x): every exception of float() is caught
to_float(x) ==
    IF isna(x) \/ strip(str(x)) = <<>>
    THEN Zero
    ELSE LET r == float(remove(strip(str(x)), ","))
         IN  IF r.exc = "None" THEN r.val ELSE Zero

\* variants of clean that differ in the order of its tests, for comparison
clean_text_first(raw, count) ==
    LET s == IF isna(raw) THEN <<>> ELSE strip(lower(str(raw)))
    IN  IF \E word \in clean_words : Contains(s, word) THEN "No Data"
        ELSE IF Contains(s, W_pending) THEN "Pending upload"
        ELSE IF count > 0 THEN "Uploaded"
        ELSE IF Contains(s, W_uploaded) \/ Contains(s, W_upload) \/ Contains(s, W_uploded)
             THEN "Uploaded"
        ELSE "No Data"

\* ... "pending" is looked for before the unavailable words
clean_pending_first(raw, count) ==
    LET s == IF isna(raw) THEN <<>> ELSE strip(lower(str(raw)))
    IN  IF count > 0 THEN "Uploaded"
        ELSE IF Contains(s, W_pending) THEN "Pending upload"
        ELSE IF \E word \in clean_words : Contains(s, word) THEN "No Data"
        ELSE IF Contains(s, W_uploaded) \/ Contains(s, W_upload) \/ Contains(s, W_uploded)
             THEN "Uploaded"
        ELSE "No Data"

\* ... "upload" is looked for before "pending", and the typo is not known
clean_upload_first(raw, count) ==
    LET s == IF isna(raw) THEN <<>> ELSE strip(lower(str(raw)))
    IN  IF count > 0 THEN "Uploaded"
        ELSE IF \E word \in clean_words : Contains(s, word) THEN "No Data"
        ELSE IF Contains(s, W_uploaded) \/ Contains(s, W_upload) THEN "Uploaded"
        ELSE IF Contains(s, W_pending) THEN "Pending upload"
        ELSE "No Data"

\* ... the pending status is spelt as the card's label spells it
clean_card_label(raw, count) ==
    LET s == IF isna(raw) THEN <<>> ELSE strip(lower(str(raw)))
    IN  IF count > 0 THEN "Uploaded"
        ELSE IF \E word \in clean_words : Contains(s, word) THEN "No Data"
        ELSE IF Contains(s, W_pending) THEN "Pending Upload"
        ELSE IF Contains(s, W_uploaded) \/ Contains(s, W_upload) \/ Contains(s, W_uploded)
             THEN "Uploaded"
        ELSE "No Data"

\* clean(raw, count)
clean(raw, count) ==
    LET s == IF isna(raw) THEN <<>> ELSE strip(lower(str(raw)))
    IN  IF count > 0 THEN "Uploaded"
        ELSE IF \E word \in clean_words : Contains(s, word) THEN "No Data"
        ELSE IF Contains(s, W_pending) THEN "Pending upload"
        ELSE IF Contains(s, W_uploaded) \/ Contains(s, W_upload) \/ Contains(s, W_uploded)
             THEN "Uploaded"
        ELSE "No Data"

\* population > 0, for a float
FloatPositive(f) == f.sign = 1 /\ f.num > 0

\* (count / population * 100) if population > 0 else 0, as the exact ratio
\* num / den of which Python stores the nearest double
percent(count, population) ==
    IF FloatPositive(population)
    THEN [num |-> count * 100 * population.den, den |-> population.num]
    ELSE [num |-> 0, den |-> 1]

(***************************************************************************)
(* pd.read_csv on the response text.  A CSV table is a header (a set of    *)
(* column names, already free of surrounding blanks, so that the strip of  *)
(* the column names leaves them as they are) and at least one row of cell  *)
(* texts.  read_csv turns the default NA spellings into NaN and infers     *)
(* each column's type: int64 when every cell is an integer literal,        *)
(* float64 when every cell is a number or NA, object (str) otherwise.      *)
(***************************************************************************)
NaStrings ==
    { <<>>, <<"N","A">>, <<"N","/","A">>, <<"n","/","a">>, <<"n","a","n">>,
      <<"N","a","N">>, <<"n","u","l","l">>, <<"N","U","L","L">>,
      <<"-","n","a","n">>, <<"-","N","a","N">> }

IsIntLiteral(t) ==
    LET u == strip(t)
        body == IF u # <<>> /\ Head(u) \in {"+", "-"} THEN Tail(u) ELSE u
    IN  body # <<>> /\ \A i \in 1..Len(body) : isdecimal(body[i])

IsFloatLiteral(t) == float(t).exc = "None"

ColumnTexts(csv, c) == {csv.rows[i][c] : i \in 1..Len(csv.rows)}

ColumnKind(csv, c) ==
    LET texts == ColumnTexts(csv, c)
        present == texts \ NaStrings
    IN  IF present = {} THEN "float"
        ELSE IF \A t \in present : IsIntLiteral(t)
             THEN (IF texts \cap NaStrings = {} THEN "int" ELSE "float")
        ELSE IF \A t \in present : IsFloatLiteral(t) THEN "float"
        ELSE "object"

ReadCell(kind, t) ==
    IF t \in NaStrings THEN NaN
    ELSE CASE kind = "int" -> IntCell(float(t).val.sign, float(t).val.num)
           [] kind = "float" -> FloatCell(float(t).val)
           [] OTHER -> StrCell(t)

read_csv(csv) ==
    [i \in 1..Len(csv.rows) |->
        [c \in csv.header |-> ReadCell(ColumnKind(csv, c), csv.rows[i][c])]]

(***************************************************************************)
(* load_and_clean after the fetch (lines 72-144).                          *)
(***************************************************************************)
TextColumns == {"State Name", "Voter Status", "Adhar Status", "Cadre Status"}

CountColumns ==
    {"Voter Count", "Adhar Count", "Cadre Count",
     "Overall Unique Mobile Count (Within State)"}

RequiredColumns == TextColumns \cup CountColumns \cup {"Population"}

\* a column that is missing is added, "" for the text columns and 0 otherwise
EnsureColumns(row) ==
    [c \in (DOMAIN row) \cup RequiredColumns |->
        IF c \in DOMAIN row THEN row[c]
        ELSE IF c \in TextColumns THEN StrCell(<<>>) ELSE IntCell(1, 0)]

DerivedColumns ==
    {"Eroll Count", "Eroll Status", "Population_Num", "Adhar_Count_Num",
     "Cadre_Count_Num", "Eroll_Count_Num", "Overall_Mobile_Count_Num",
     "Adhar_Status_Clean", "Cadre_Status_Clean", "Eroll_Status_Clean",
     "Adhar_Percent", "Cadre_Percent", "Eroll_Percent",
     "Overall_Mobile_Percent", "State"}

\* which raw count column each *_Count_Num column is parsed from
CountSource(c) ==
    CASE c = "Adhar_Count_Num" -> "Adhar Count"
      [] c = "Cadre_Count_Num" -> "Cadre Count"
      [] c = "Eroll_Count_Num" -> "Voter Count"
      [] c = "Overall_Mobile_Count_Num" -> "Overall Unique Mobile Count (Within State)"

CountNumColumns ==
    {"Adhar_Count_Num", "Cadre_Count_Num", "Eroll_Count_Num", "Overall_Mobile_Count_Num"}

\* one row of the returned frame, for a row r that has every required column
CleanRow(r) ==
    LET pop == to_float(r["Population"])
        cnt(c) == to_int(r[CountSource(c)]).val
    IN  [c \in (DOMAIN r) \cup DerivedColumns |->
          CASE c = "Eroll Count" -> r["Voter Count"]
            [] c = "Eroll Status" -> r["Voter Status"]
            [] c = "Population_Num" -> pop
            [] c \in CountNumColumns -> cnt(c)
            [] c = "Adhar_Status_Clean" -> clean(r["Adhar Status"], cnt("Adhar_Count_Num"))
            [] c = "Cadre_Status_Clean" -> clean(r["Cadre Status"], cnt("Cadre_Count_Num"))
            [] c = "Eroll_Status_Clean" -> clean(r["Voter Status"], cnt("Eroll_Count_Num"))
            [] c = "Adhar_Percent" -> percent(cnt("Adhar_Count_Num"), pop)
            [] c = "Cadre_Percent" -> percent(cnt("Cadre_Count_Num"), pop)
            [] c = "Eroll_Percent" -> percent(cnt("Eroll_Count_Num"), pop)
            [] c = "Overall_Mobile_Percent" -> percent(cnt("Overall_Mobile_Count_Num"), pop)
            [] c = "State" -> strip(str(r["State Name"]))
            [] OTHER -> r[c]]

\* the apply of to_int over the count columns raises when one cell does
RowRaises(r) == \E c \in CountColumns : to_int(r[c]).exc # "None"

\* lines 72-144 on the frame read_csv returned: the frame load_and_clean
\* returns, or the exception that escapes it
CleanFrame(frame) ==
    LET full == [i \in 1..Len(frame) |-> EnsureColumns(frame[i])]
    IN  IF \E i \in 1..Len(full) : RowRaises(full[i])
        THEN [exc |-> "ValueError", df |-> <<>>]
        ELSE [exc |-> "None", df |-> [i \in 1..Len(full) |-> CleanRow(full[i])]]

(***************************************************************************)
(* The CSV tables the fetch may return.  Texts are drawn from vocabularies *)
(* of the cells the feed holds and from every text of at most MaxLen       *)
(* characters over a small alphabet.                                       *)
(***************************************************************************)
RECURSIVE Texts(_, _)
Texts(alphabet, n) ==
    IF n = 0 THEN {<<>>}
    ELSE LET shorter == Texts(alphabet, n - 1)
         IN  shorter \cup
             {Append(t, a) : t \in {u \in shorter : Len(u) = n - 1}, a \in alphabet}

\* status annotations: Uploaded, uploded, UPLOADED_, Pending, Pending upload,
\* Data Not Available, Not Available, No Data, Not uploaded, data pending,
\* NA pending upload, na, _N/A, N/A, Final upload, In progress, Available
StatusVocab ==
    { <<"U","p","l","o","a","d","e","d">>
    , <<"u","p","l","o","d","e","d">>
    , <<"U","P","L","O","A","D","E","D"," ">>
    , <<"P","e","n","d","i","n","g">>
    , <<"P","e","n","d","i","n","g"," ","u","p","l","o","a","d">>
    , <<"D","a","t","a"," ","N","o","t"," ","A","v","a","i","l","a","b","l","e">>
    , <<"N","o","t"," ","A","v","a","i","l","a","b","l","e">>
    , <<"N","o"," ","D","a","t","a">>
    , <<"N","o","t"," ","u","p","l","o","a","d","e","d">>
    , <<"d","a","t","a"," ","p","e","n","d","i","n","g">>
    , <<"N","A"," ","p","e","n","d","i","n","g"," ","u","p","l","o","a","d">>
    , <<"n","a">>
    , <<" ","N","/","A">>
    , <<"N","/","A">>
    , <<"F","i","n","a","l"," ","u","p","l","o","a","d">>
    , <<"I","n"," ","p","r","o","g","r","e","s","s">>
    , <<"A","v","a","i","l","a","b","l","e">>
    }

\* count cells: 12,345 / 1,234 (approx) / 123 - data not available /
\* Data Not Available / 1234.0 / 12.5 / 7 / _42_ / -8 / N/A / 5(sup2) / approx 90
CountVocab ==
    { <<"1","2",",","3","4","5">>
    , <<"1",",","2","3","4"," ","(","a","p","p","r","o","x",")">>
    , <<"1","2","3"," ","-"," ","d","a","t","a"," ","n","o","t"," ","a","v","a","i","l","a","b","l","e">>
    , <<"D","a","t","a"," ","N","o","t"," ","A","v","a","i","l","a","b","l","e">>
    , <<"1","2","3","4",".","0">>
    , <<"1","2",".","5">>
    , <<"7">>
    , <<" ","4","2"," ">>
    , <<"-","8">>
    , <<"N","/","A">>
    , <<"5","sup2">>
    , <<"a","p","p","r","o","x"," ","9","0">>
    }

\* Population cells: 15,000 / 200 / 0 / -5 / 15.5 / unknown / _1000_ /
\* 1 000 / -0.0
PopulationVocab ==
    { <<"1","5",",","0","0","0">>
    , <<"2","0","0">>
    , <<"0">>
    , <<"-","5">>
    , <<"1","5",".","5">>
    , <<"u","n","k","n","o","w","n">>
    , <<" ","1","0","0","0"," ">>
    , <<"1"," ","0","0","0">>
    , <<"-","0",".","0">>
    }

StatusAlphabet == {"n", "a", "N", "/", " ", "o"}
CountAlphabet == {"1", "0", ",", " ", "-", "sup2", "n", "a"}
PopulationAlphabet == {"1", "0", ",", ".", "-", " ", "x"}

StatusTexts == StatusVocab \cup Texts(StatusAlphabet, MaxLen)
CountTexts == CountVocab \cup Texts(CountAlphabet, MaxLen)
PopulationTexts == PopulationVocab \cup Texts(PopulationAlphabet, MaxLen)

\* a CSV row with every column
CsvRow(state, population, adhar_count, adhar_status, cadre_count, cadre_status, voter_count, voter_status, overall_count) ==
    [c \in RequiredColumns |->
        CASE c = "State Name" -> state
          [] c = "Population" -> population
          [] c = "Adhar Count" -> adhar_count
          [] c = "Adhar Status" -> adhar_status
          [] c = "Cadre Count" -> cadre_count
          [] c = "Cadre Status" -> cadre_status
          [] c = "Voter Count" -> voter_count
          [] c = "Voter Status" -> voter_status
          [] OTHER -> overall_count]

\* the end-to-end scenario of the specification, with smaller numbers
Row_Goa ==
    CsvRow(<<" ","G","o","a"," ">>,
           <<"1","5",",","0","0","0">>,
           <<"1",",","2","3","4">>,
           <<"U","p","l","o","a","d","e","d">>,
           <<>>,
           <<"P","e","n","d","i","n","g">>,
           <<>>,
           <<>>,
           <<>>)

\* a count that contradicts its status, a count above the population
Row_Kerala ==
    CsvRow(<<"K","e","r","a","l","a">>,
           <<"2","0","0">>,
           <<"5","0">>,
           <<"N","o"," ","D","a","t","a">>,
           <<"D","a","t","a"," ","N","o","t"," ","A","v","a","i","l","a","b","l","e">>,
           <<"D","a","t","a"," ","N","o","t"," ","A","v","a","i","l","a","b","l","e">>,
           <<"3","0","0">>,
           <<"u","p","l","o","d","e","d">>,
           <<"1","2","0">>)

\* every count and status blank
Row_Bihar ==
    CsvRow(<<"B","i","h","a","r">>,
           <<"1","0","0","0">>,
           <<>>,
           <<>>,
           <<>>,
           <<>>,
           <<>>,
           <<>>,
           <<>>)

\* a second row of the same state, no population
Row_Goa2 ==
    CsvRow(<<"G","o","a">>,
           <<>>,
           <<"0">>,
           <<"P","e","n","d","i","n","g"," ","u","p","l","o","a","d">>,
           <<"7">>,
           <<>>,
           <<>>,
           <<"N","o","t"," ","u","p","l","o","a","d","e","d">>,
           <<"4","0">>)

\* a population with a leading minus sign
Row_Assam ==
    CsvRow(<<"A","s","s","a","m">>,
           <<"-","5">>,
           <<"1","0">>,
           <<>>,
           <<>>,
           <<"u","p","l","o","d","e","d">>,
           <<>>,
           <<"d","a","t","a"," ","p","e","n","d","i","n","g">>,
           <<>>)

\* a count written with a superscript digit
Row_Sup ==
    CsvRow(<<"D","e","l","h","i">>,
           <<"3","0","0">>,
           <<"5","sup2">>,
           <<>>,
           <<>>,
           <<>>,
           <<>>,
           <<>>,
           <<>>)

\* the row the one-row tables vary
Row_Base ==
    CsvRow(<<" ","G","o","a"," ">>,
           <<"2","0","0">>,
           <<>>,
           <<>>,
           <<>>,
           <<>>,
           <<>>,
           <<>>,
           <<>>)

CuratedRows == {Row_Goa, Row_Kerala, Row_Bihar, Row_Goa2, Row_Assam, Row_Sup}

\* the columns a published sheet may lack
MissingOptions ==
    { {},
      {"Cadre Count", "Cadre Status", "Overall Unique Mobile Count (Within State)"},
      {"State Name", "Population", "Voter Status"} }

Restrict(row, columns) == [c \in columns |-> row[c]]

\* tables of 1..MaxRows curated rows, with or without some columns
MultiTables ==
    { [header |-> RequiredColumns \ missing,
       rows |-> [i \in 1..Len(rs) |-> Restrict(rs[i], RequiredColumns \ missing)]] :
        rs \in UNION {[1..n -> CuratedRows] : n \in 1..MaxRows},
        missing \in MissingOptions }

SmallCounts == {<<>>, <<"0">>, <<"7">>}

\* one-row tables: a status text against a count, for each tallied metric
StatusLabRows ==
    { [Row_Base EXCEPT ![m[1]] = count, ![m[2]] = status] :
        m \in {<<"Adhar Count", "Adhar Status">>, <<"Cadre Count", "Cadre Status">>,
               <<"Voter Count", "Voter Status">>},
        count \in SmallCounts, status \in StatusTexts }

\* one-row tables: a count text in each count column
CountLabRows ==
    { [Row_Base EXCEPT ![c] = count] : c \in CountColumns, count \in CountTexts }

\* one-row tables: a Population text against a count
PopulationLabRows ==
    { [Row_Base EXCEPT !["Population"] = population, !["Adhar Count"] = count] :
        population \in PopulationTexts, count \in SmallCounts \cup {<<"2","5","0">>} }

LabTables ==
    { [header |-> RequiredColumns, rows |-> <<r>>] :
        r \in StatusLabRows \cup CountLabRows \cup PopulationLabRows }

CsvTables == MultiTables \cup LabTables

(***************************************************************************)
(* The script below load_and_clean (lines 183-526): what one run renders.  *)
(***************************************************************************)
W_All == <<"A","l","l">>

\* the characters of the model in code point order, the order Python and
\* pandas compare strings in
CodeOrder ==
    <<"\t", " ", "(", ")", "+", ",", "-", ".", "/">> \o Digits \o Upper \o Lower
    \o <<"sup2">>

Ord(c) == CHOOSE i \in 1..Len(CodeOrder) : CodeOrder[i] = c

\* a < b on strings
StrLess(a, b) ==
    \E k \in 1..(Len(a) + 1) :
        /\ k <= Len(b)
        /\ \A j \in 1..(k - 1) : a[j] = b[j]
        /\ (k > Len(a) \/ Ord(a[k]) < Ord(b[k]))

\* sorted(df["State"].unique().tolist()) as the set of its entries, after "All"
FilterOptions(frame) == {W_All} \cup {frame[i]["State"] : i \in 1..Len(frame)}

\* df_filtered: a copy of the frame, or its rows of the selected state
ApplyFilter(frame, selected) ==
    IF selected # W_All
    THEN SelectSeq(frame, LAMBDA r : r["State"] = selected)
    ELSE frame

\* (df[column] == value).sum()
CountEqual(frame, column, value) ==
    Cardinality({i \in 1..Len(frame) : frame[i][column] = value})

Tally(frame, column) ==
    [uploaded |-> CountEqual(frame, column, "Uploaded"),
     pending |-> CountEqual(frame, column, "Pending upload"),
     no_data |-> CountEqual(frame, column, "No Data")]

\* the three summary cards
Cards(frame) ==
    [Aadhaar |-> Tally(frame, "Adhar_Status_Clean"),
     Cadre |-> Tally(frame, "Cadre_Status_Clean"),
     Eroll |-> Tally(frame, "Eroll_Status_Clean")]

\* a frame in the order it has once the row at position i has moved to rank[i]
Arrange(frame, rank) ==
    [k \in 1..Len(frame) |-> frame[CHOOSE i \in 1..Len(frame) : rank[i] = k]]

\* df.sort_values("Adhar_Count_Num", ascending=False); rows of equal count
\* keep their order, as they do for the few rows of a frame of the model
BarChart(frame) ==
    LET key(i) == frame[i]["Adhar_Count_Num"]
        Rank(i) ==
            1 + Cardinality({j \in 1..Len(frame) : key(j) > key(i)})
              + Cardinality({j \in 1..(i - 1) : key(j) = key(i)})
    IN  Arrange(frame, [i \in 1..Len(frame) |-> Rank(i)])

\* df_filtered.sort_values("State")
SortByState(frame) ==
    LET key(i) == frame[i]["State"]
        Rank(i) ==
            1 + Cardinality({j \in 1..Len(frame) : StrLess(key(j), key(i))})
              + Cardinality({j \in 1..(i - 1) : key(j) = key(i)})
    IN  Arrange(frame, [i \in 1..Len(frame) |-> Rank(i)])

\* the digits with a comma before every group of three, as format(n, ",")
RECURSIVE Grouped(_)
Grouped(d) ==
    IF Len(d) <= 3 THEN d
    ELSE Grouped(SubSeq(d, 1, Len(d) - 3)) \o <<",">> \o SubSeq(d, Len(d) - 2, Len(d))

\* format_number(n), n a float
format_number(n) ==
    IF FloatPositive(n) THEN Grouped(NatToStr(n.num \div n.den)) ELSE <<"0">>

\* create_progress_bar: the count and the bar's width, pct = min(percentage, 100)
create_progress_bar(count, percentage) ==
    [class |-> "progress-green",
     text |-> format_number([sign |-> 1, num |-> count, den |-> 1]),
     pct |-> IF percentage.num > 100 * percentage.den
             THEN [num |-> 100, den |-> 1] ELSE percentage]

\* create_status_badge
create_status_badge(status) ==
    [class |-> IF status = "Pending upload" THEN "badge-pending" ELSE "badge-nodata",
     text |-> status,
     pct |-> [num |-> 0, den |-> 1]]

MetricCell(row, count, pct, status) ==
    IF row[count] > 0 THEN create_progress_bar(row[count], row[pct])
    ELSE create_status_badge(status)

\* one <tr> of the detail table
HtmlRow(row) ==
    [State |-> row["State"],
     Population |-> format_number(row["Population_Num"]),
     Aadhaar |-> MetricCell(row, "Adhar_Count_Num", "Adhar_Percent", row["Adhar_Status_Clean"]),
     Cadre |-> MetricCell(row, "Cadre_Count_Num", "Cadre_Percent", row["Cadre_Status_Clean"]),
     Eroll |-> MetricCell(row, "Eroll_Count_Num", "Eroll_Percent", row["Eroll_Status_Clean"]),
     Overall |-> MetricCell(row, "Overall_Mobile_Count_Num", "Overall_Mobile_Percent", "No Data")]

\* the rows of the detail table, in the order of df_filtered.sort_values("State")
HtmlTable(filtered) ==
    LET display == SortByState(filtered)
    IN  [i \in 1..Len(display) |-> HtmlRow(display[i])]

\* display_df: the exported columns under their exported names
ExportRow(row) ==
    [c \in {"State", "Population", "Aadhaar Count", "Aadhaar %", "Aadhaar Status",
            "Cadre Count", "Cadre %", "Cadre Status", "Eroll Count", "Eroll %",
            "Eroll Status", "Overall Mobile Count", "Overall Mobile %"} |->
        CASE c = "State" -> row["State"]
          [] c = "Population" -> row["Population_Num"]
          [] c = "Aadhaar Count" -> row["Adhar_Count_Num"]
          [] c = "Aadhaar %" -> row["Adhar_Percent"]
          [] c = "Aadhaar Status" -> row["Adhar_Status_Clean"]
          [] c = "Cadre Count" -> row["Cadre_Count_Num"]
          [] c = "Cadre %" -> row["Cadre_Percent"]
          [] c = "Cadre Status" -> row["Cadre_Status_Clean"]
          [] c = "Eroll Count" -> row["Eroll_Count_Num"]
          [] c = "Eroll %" -> row["Eroll_Percent"]
          [] c = "Eroll Status" -> row["Eroll_Status_Clean"]
          [] c = "Overall Mobile Count" -> row["Overall_Mobile_Count_Num"]
          [] OTHER -> row["Overall_Mobile_Percent"]]

ExportFrame(filtered) == [i \in 1..Len(filtered) |-> ExportRow(filtered[i])]

(***************************************************************************)
(* The state machine: one run of the script after another.                 *)
(***************************************************************************)
max_retries == 3

VARIABLES
    pc,            \* where the current run is: fetch, clean, render, shown,
                   \* stopped (st.stop()), crashed (an exception escaped)
    attempt,       \* the loop variable of the retry loop
    error,         \* the exception that ended the run, or "None"
    raw,           \* the frame pd.read_csv returned
    df,            \* the frame load_and_clean returned (and st.cache_data keeps)
    state_filter,  \* the selection of the sidebar's select box
    df_filtered,   \* the frame behind the detail table and the export
    cards,         \* the tallies of the three summary cards
    df_bar,        \* the rows of the bar chart
    html_table,    \* the rows of the detail table
    display_df     \* the frame handed to the download button

vars == <<pc, attempt, error, raw, df, state_filter, df_filtered, cards, df_bar,
          html_table, display_df>>

page == <<state_filter, df_filtered, cards, df_bar, html_table, display_df>>

\* a page on which nothing below the style sheet has been rendered
BlankPage ==
    /\ state_filter' = W_All
    /\ df_filtered' = <<>>
    /\ cards' = Cards(<<>>)
    /\ df_bar' = <<>>
    /\ html_table' = <<>>
    /\ display_df' = <<>>

Init ==
    /\ pc = "fetch"
    /\ attempt = 0
    /\ error = "None"
    /\ raw = <<>>
    /\ df = <<>>
    /\ state_filter = W_All
    /\ df_filtered = <<>>
    /\ cards = Cards(<<>>)
    /\ df_bar = <<>>
    /\ html_table = <<>>
    /\ display_df = <<>>

\* a variant of ShouldRetry whose test is off by one, for comparison
ShouldRetry_off_by_one(a) == a < max_retries

\* the test of line 60: after a failed attempt, is another one made
ShouldRetry(a) == a < max_retries - 1

\* requests.get and pd.read_csv succeed: break out of the retry loop
FetchOk ==
    /\ pc = "fetch"
    /\ \E csv \in CsvTables : raw' = read_csv(csv)
    /\ pc' = "clean"
    /\ UNCHANGED <<attempt, error, df, page>>

\* requests.get raises a RequestException: warn, sleep and go round the loop
\* again, or report the failure and st.stop().  (A loop that ran out without
\* break or stop would reach line 72 with df unbound.)
FetchFails ==
    /\ pc = "fetch"
    /\ IF ShouldRetry(attempt)
       THEN IF attempt + 1 < max_retries
            THEN /\ attempt' = attempt + 1
                 /\ UNCHANGED <<pc, error>>
            ELSE /\ pc' = "crashed"
                 /\ error' = "UnboundLocalError"
                 /\ UNCHANGED attempt
       ELSE /\ pc' = "stopped"
            /\ error' = "RequestException"
            /\ UNCHANGED attempt
    /\ UNCHANGED <<raw, df, page>>

\* any other exception of the try block (the response is no CSV): st.stop()
FetchUnexpected ==
    /\ pc = "fetch"
    /\ pc' = "stopped"
    /\ error' = "Exception"
    /\ UNCHANGED <<attempt, raw, df, page>>

\* lines 72-144: the frame is returned (and cached), or an exception escapes
Clean ==
    /\ pc = "clean"
    /\ LET r == CleanFrame(raw)
       IN  IF r.exc = "None"
           THEN /\ df' = r.df
                /\ pc' = "render"
                /\ UNCHANGED error
           ELSE /\ pc' = "crashed"
                /\ error' = r.exc
                /\ UNCHANGED df
    /\ attempt' = 0
    /\ UNCHANGED <<raw, page>>

\* a variant of Render that makes the cards and the chart from the filtered frame
Render_from_filtered ==
    /\ pc = "render"
    /\ \E selected \in FilterOptions(df) :
          /\ state_filter' = selected
          /\ df_filtered' = ApplyFilter(df, selected)
          /\ cards' = Cards(ApplyFilter(df, selected))
          /\ df_bar' = BarChart(ApplyFilter(df, selected))
          /\ html_table' = HtmlTable(ApplyFilter(df, selected))
          /\ display_df' = ExportFrame(ApplyFilter(df, selected))
    /\ pc' = "shown"
    /\ UNCHANGED <<attempt, error, raw, df>>

\* lines 186-526 under the selection the user has made in the select box
Render ==
    /\ pc = "render"
    /\ \E selected \in FilterOptions(df) :
          /\ state_filter' = selected
          /\ df_filtered' = ApplyFilter(df, selected)
          /\ cards' = Cards(df)
          /\ df_bar' = BarChart(df)
          /\ html_table' = HtmlTable(ApplyFilter(df, selected))
          /\ display_df' = ExportFrame(ApplyFilter(df, selected))
    /\ pc' = "shown"
    /\ UNCHANGED <<attempt, error, raw, df>>

\* the user changes the selection within the cache's ttl: the script runs
\* again and load_and_clean returns the cached frame
RerunCached ==
    /\ pc = "shown"
    /\ pc' = "render"
    /\ BlankPage
    /\ UNCHANGED <<attempt, error, raw, df>>

\* the script runs again with nothing cached (the ttl has passed, or the
\* last run stopped or crashed): load_and_clean fetches again
RerunReload ==
    /\ pc \in {"shown", "stopped", "crashed"}
    /\ pc' = "fetch"
    /\ attempt' = 0
    /\ error' = "None"
    /\ raw' = <<>>
    /\ df' = <<>>
    /\ BlankPage

Next ==
    \/ FetchOk
    \/ FetchFails
    \/ FetchUnexpected
    \/ Clean
    \/ Render
    \/ RerunCached
    \/ RerunReload

Spec == Init /\ [][Next]_vars

\* requests.get(url, timeout=10) cannot hang: an attempt that returns no
\* response raises, so a load that stayed in the retry loop for ever would
\* see one failed attempt after another
FairSpec == Spec /\ WF_vars(FetchFails)

(***************************************************************************)
(* The claims.                                                             *)
(***************************************************************************)
\* the three tallied metrics: the raw status column, the parsed count, the
\* derived status and the summary card of each
TalliedMetrics ==
    { [raw |-> "Adhar Status", count |-> "Adhar_Count_Num",
       status |-> "Adhar_Status_Clean", card |-> "Aadhaar"],
      [raw |-> "Cadre Status", count |-> "Cadre_Count_Num",
       status |-> "Cadre_Status_Clean", card |-> "Cadre"],
      [raw |-> "Voter Status", count |-> "Eroll_Count_Num",
       status |-> "Eroll_Status_Clean", card |-> "Eroll"] }

\* the lower-cased, trimmed form of a status cell (empty when absent)
StatusText(x) == IF isna(x) THEN <<>> ELSE strip(lower(str(x)))

W_no_data == <<"n","o"," ","d","a","t","a">>

ContainsAny(s, words) == \E w \in words : Contains(s, w)

\* C1: in every row load_and_clean returns, for each of the Aadhaar, Cadre
\* and Eroll metrics, a parsed count above 0 gives the status Uploaded
\* whatever the raw status text is (absent, blank, or contradicting it).
C1_CountWins ==
    \A i \in 1..Len(df) : \A m \in TalliedMetrics :
        df[i][m.count] > 0 => df[i][m.status] = "Uploaded"

\* C1's case: a row with a count above 0 whose status text says "No Data"
C1_Witness ==
    \E i \in 1..Len(df) : \E m \in TalliedMetrics :
        /\ df[i][m.count] > 0
        /\ Contains(StatusText(df[i][m.raw]), W_no_data)
        /\ df[i][m.status] = "Uploaded"

\* C2 as claimed: with a parsed count of 0, a status text that contains any
\* word of to_int's list ("data", "not", "available", "na", "n/a") or
\* "no data" gives No Data, before "pending" and "upload" are looked for.
C2_Original ==
    \A i \in 1..Len(df) : \A m \in TalliedMetrics :
        (/\ df[i][m.count] = 0
         /\ ContainsAny(StatusText(df[i][m.raw]),
                        {W_data, W_not, W_available, W_na, W_n_a, W_no_data}))
        => df[i][m.status] = "No Data"

\* C2 as amended: with a parsed count of 0, a status text whose lower-cased,
\* trimmed form contains "not available", "na" or "n/a" gives No Data, also
\* when it contains "pending" or "upload" as well.
C2_Amended ==
    \A i \in 1..Len(df) : \A m \in TalliedMetrics :
        (/\ df[i][m.count] = 0
         /\ ContainsAny(StatusText(df[i][m.raw]), {W_not_available, W_na, W_n_a}))
        => df[i][m.status] = "No Data"

\* C2's case: an unavailable word next to "pending" and "upload", count 0
C2_Witness ==
    \E i \in 1..Len(df) : \E m \in TalliedMetrics :
        /\ df[i][m.count] = 0
        /\ Contains(StatusText(df[i][m.raw]), W_na)
        /\ Contains(StatusText(df[i][m.raw]), W_pending)
        /\ Contains(StatusText(df[i][m.raw]), W_upload)
        /\ df[i][m.status] = "No Data"

\* C3: with a parsed count of 0 and a status text that holds no unavailable
\* word (none of "not available", "na", "n/a", so in particular none of
\* "not", "na", "n/a"), a text containing "pending" gives Pending upload even
\* if it contains "upload" too, and a text containing "upload" or "uploded"
\* but not "pending" gives Uploaded.
C3_PendingBeforeUpload ==
    \A i \in 1..Len(df) : \A m \in TalliedMetrics :
        LET s == StatusText(df[i][m.raw])
        IN  (/\ df[i][m.count] = 0
             /\ ~ContainsAny(s, {W_not_available, W_na, W_n_a}))
            => /\ Contains(s, W_pending) => df[i][m.status] = "Pending upload"
               /\ (/\ ~Contains(s, W_pending)
                   /\ (Contains(s, W_upload) \/ Contains(s, W_uploded)))
                  => df[i][m.status] = "Uploaded"

\* C3's cases in one frame: "pending upload" with count 0 is Pending upload,
\* and the misspelt "uploded" with count 0 is Uploaded
C3_Witness ==
    /\ \E i \in 1..Len(df) : \E m \in TalliedMetrics :
        /\ df[i][m.count] = 0
        /\ Contains(StatusText(df[i][m.raw]), W_pending)
        /\ Contains(StatusText(df[i][m.raw]), W_upload)
        /\ df[i][m.status] = "Pending upload"
    /\ \E i \in 1..Len(df) : \E m \in TalliedMetrics :
        /\ df[i][m.count] = 0
        /\ StatusText(df[i][m.raw]) = W_uploded
        /\ df[i][m.status] = "Uploaded"

\* the count the claim C4 describes for a cell: 0 when absent or blank, 0
\* when the text without commas and spaces holds an unavailable word, else
\* the number its decimal digits spell in order (0 when there are none)
ClaimedCount(x) ==
    IF isna(x) \/ strip(str(x)) = <<>> THEN 0
    ELSE IF ContainsAny(lower(remove(remove(str(x), ","), " ")),
                        {W_data, W_not, W_available, W_na, W_n_a})
    THEN 0
    ELSE StrToNat(SelectSeq(str(x), isdecimal))

\* C4 as claimed: to_int is total (it never raises, so no load ends with a
\* ValueError) and every parsed count is an integer >= 0, the one the rule
\* above gives for its cell.
C4_Original ==
    /\ error # "ValueError"
    /\ \A i \in 1..Len(df) : \A c \in CountNumColumns :
        /\ df[i][c] >= 0
        /\ df[i][c] = ClaimedCount(df[i][CountSource(c)])

\* C5 as claimed: the parsed population of every row is >= 0.
C5_Original ==
    \A i \in 1..Len(df) :
        ~(df[i]["Population_Num"].sign = -1 /\ df[i]["Population_Num"].num > 0)

\* which percentage belongs to which count
PercentOf(c) ==
    CASE c = "Adhar_Count_Num" -> "Adhar_Percent"
      [] c = "Cadre_Count_Num" -> "Cadre_Percent"
      [] c = "Eroll_Count_Num" -> "Eroll_Percent"
      [] c = "Overall_Mobile_Count_Num" -> "Overall_Mobile_Percent"

\* C6 as claimed: for every metric of every row the percent is 0 when the
\* population is 0, and otherwise it is count / population * 100, unclamped
\* (pct.num / pct.den = count * 100 / population, cross-multiplied).
C6_Original ==
    \A i \in 1..Len(df) : \A c \in CountNumColumns :
        LET pop == df[i]["Population_Num"]
            pct == df[i][PercentOf(c)]
        IN  /\ pop.num = 0 => pct.num = 0
            /\ pop.num # 0 =>
                 pct.num * pop.sign * pop.num = df[i][c] * 100 * pop.den * pct.den

\* C7: on a rendered page, for each tallied metric every row's status is one
\* of Uploaded, Pending upload, No Data, and the card's three tallies add up
\* to the number of rows.
C7_TalliesPartition ==
    pc = "shown" =>
        \A m \in TalliedMetrics :
            /\ \A i \in 1..Len(df) :
                 df[i][m.status] \in {"Uploaded", "Pending upload", "No Data"}
            /\ cards[m.card].uploaded + cards[m.card].pending + cards[m.card].no_data
                 = Len(df)

\* C7's case: a page over two rows or more with a card that counts both an
\* uploaded and a pending row
C7_Witness ==
    /\ pc = "shown"
    /\ Len(df) >= 2
    /\ \E m \in TalliedMetrics :
         cards[m.card].uploaded >= 1 /\ cards[m.card].pending >= 1

\* the positions of the rows of the full frame the selection keeps
Kept == {i \in 1..Len(df) : state_filter = W_All \/ df[i]["State"] = state_filter}

\* the k-th kept position
KeptAt(k) == CHOOSE i \in Kept : Cardinality({j \in Kept : j < i}) = k - 1

\* C8: on a rendered page, whatever the selection, the cards count the rows
\* of the full frame and the bar chart holds every row of the full frame
\* (by falling Aadhaar count); the detail table and the export hold exactly
\* the rows whose state is the selected one (all rows for "All"); and the
\* full frame is still the one load_and_clean returned.
C8_FilterOnlyTable ==
    pc = "shown" =>
        /\ \A m \in TalliedMetrics :
             /\ cards[m.card].uploaded =
                  Cardinality({i \in 1..Len(df) : df[i][m.status] = "Uploaded"})
             /\ cards[m.card].pending =
                  Cardinality({i \in 1..Len(df) : df[i][m.status] = "Pending upload"})
             /\ cards[m.card].no_data =
                  Cardinality({i \in 1..Len(df) : df[i][m.status] = "No Data"})
        /\ Len(df_bar) = Len(df)
        /\ \A i \in 1..Len(df) :
             Cardinality({j \in 1..Len(df_bar) : df_bar[j] = df[i]})
               = Cardinality({j \in 1..Len(df) : df[j] = df[i]})
        /\ \A j \in 1..(Len(df_bar) - 1) :
             df_bar[j]["Adhar_Count_Num"] >= df_bar[j + 1]["Adhar_Count_Num"]
        /\ Len(df_filtered) = Cardinality(Kept)
        /\ \A k \in 1..Len(df_filtered) : df_filtered[k] = df[KeptAt(k)]
        /\ Len(display_df) = Cardinality(Kept)
        /\ \A k \in 1..Len(display_df) :
             /\ display_df[k]["State"] = df[KeptAt(k)]["State"]
             /\ display_df[k]["Aadhaar Count"] = df[KeptAt(k)]["Adhar_Count_Num"]
             /\ display_df[k]["Aadhaar Status"] = df[KeptAt(k)]["Adhar_Status_Clean"]
        /\ Len(html_table) = Cardinality(Kept)
        /\ \A k \in 1..Len(html_table) :
             state_filter = W_All \/ html_table[k].State = state_filter
        /\ df = CleanFrame(raw).df

\* C8's case: a state is selected that only some of the rows belong to
C8_Witness ==
    /\ pc = "shown"
    /\ state_filter # W_All
    /\ Len(df_filtered) >= 1
    /\ Len(df_filtered) < Len(df)
    /\ cards.Aadhaar.uploaded + cards.Aadhaar.pending + cards.Aadhaar.no_data
         > Len(df_filtered)

\* a cell that is absent or blank
Blank(x) == isna(x) \/ strip(str(x)) = <<>>

\* a raw row whose count and status cells are all blank or absent
BlankRow(r) ==
    \A c \in (CountColumns \cup {"Voter Status", "Adhar Status", "Cadre Status"})
             \cap DOMAIN r : Blank(r[c])

\* C9 as claimed: once the raw rows are obtained load_and_clean never fails,
\* and the frame it returns has the rows of the input in the same number and
\* order, a row with only blank counts and statuses giving count 0, status
\* No Data and percent 0 for every metric.
C9_Original ==
    /\ pc # "crashed"
    /\ pc \in {"render", "shown"} =>
         /\ Len(df) = Len(raw)
         /\ \A i \in 1..Len(df) :
              /\ \A c \in DOMAIN raw[i] : df[i][c] = raw[i][c]
              /\ BlankRow(raw[i]) =>
                   /\ \A c \in CountNumColumns :
                        df[i][c] = 0 /\ df[i][PercentOf(c)].num = 0
                   /\ \A m \in TalliedMetrics : df[i][m.status] = "No Data"

\* C10: one load makes at most 3 fetch attempts, each failed attempt but the
\* last is followed by the next one, a success leaves the retry loop for the
\* cleaning, a run that stopped has rendered nothing and cleaned nothing, it
\* stopped on a failed request only after the third attempt, the loop never
\* runs out without a frame, and every load leaves the retry loop: for the
\* cleaning or stopped.
C10_BoundedRetry ==
    /\ [](pc = "fetch" => attempt \in 0..2)
    /\ [](pc = "stopped" =>
            /\ raw = <<>> /\ df = <<>>
            /\ df_filtered = <<>> /\ df_bar = <<>> /\ html_table = <<>>
            /\ display_df = <<>>
            /\ cards.Aadhaar.uploaded + cards.Aadhaar.pending + cards.Aadhaar.no_data = 0
            /\ error = "RequestException" => attempt = 2)
    /\ [](error # "UnboundLocalError")
    /\ [][(pc = "fetch" /\ pc' = "fetch") => attempt' = attempt + 1]_vars
    /\ [][(pc = "fetch" /\ pc' = "clean") => (raw' # <<>> /\ attempt' = attempt)]_vars
    /\ (pc = "fetch") ~> (pc \in {"clean", "stopped"})

\* C10's case: the third attempt has failed and the run has stopped
C10_Witness == pc = "stopped" /\ error = "RequestException" /\ attempt = 2

\* a count cell that is a number (not text, not NaN) holding a whole n >= 0
WholeNumberCell(x) ==
    /\ x.kind \in {"int", "float"}
    /\ x.f.sign = 1
    /\ x.f.den = 1

\* C11 as claimed: a count cell that holds the non-negative whole number n,
\* as the int n or as the float n.0, is parsed to exactly n.
C11_Original ==
    \A i \in 1..Len(df) : \A c \in CountNumColumns :
        WholeNumberCell(df[i][CountSource(c)])
            => df[i][c] = df[i][CountSource(c)].f.num

=============================================================================
